---- MODULE Spec2Model ----
(***************************************************************************)
(* Model of src/attr.rs of rust-derivative: the parsing of the            *)
(* `derivative` attributes of a type (Input::from_ast) and of a field     *)
(* (Field::from_ast) into their configuration records.                    *)
(*                                                                         *)
(* Representation.                                                         *)
(*   Option<String>            [some, s]           (None: some = FALSE)    *)
(*   Option<Vec<WherePredicate>> [present, preds]  (None: present = FALSE) *)
(*   Option<syn::Path>, Option<syn::Expr>  [some, s]                       *)
(*   Result<T, String>         [tag, val, err], tag in Ok / Err / Panic    *)
(*   syn::Lit                  [str, value]  (str = FALSE: not a string)   *)
(*   syn::NestedMeta, syn::Meta  [kind, ident, lit, nested]                *)
(*        kind in Literal / Word / NameValue / List                        *)
(*   syn::Attribute            the meta interpret_meta() gives for it,     *)
(*        kind None when it gives none; ident is the one-segment path      *)
(* In the messages the character ' stands for the backquote of the source. *)
(***************************************************************************)
EXTENDS Naturals, Sequences, FiniteSets, TLC

VARIABLES level, attrs, ai, ni, input, out, pc, result

vars == <<level, attrs, ai, ni, input, out, pc, result>>

----------------------------------------------------------------------------
(* Results and options *)

Ok(v) == [tag |-> "Ok", val |-> v, err |-> ""]

Err(msg) == [tag |-> "Err", val |-> <<>>, err |-> msg]

Panic(msg) == [tag |-> "Panic", val |-> <<>>, err |-> msg]

None == [some |-> FALSE, s |-> ""]

Some(str) == [some |-> TRUE, s |-> str]

NoBounds == [present |-> FALSE, preds |-> <<>>]

SomeBounds(ps) == [present |-> TRUE, preds |-> ps]

----------------------------------------------------------------------------
(* The external sub-parsers of syn, on the payloads the model uses.        *)

(* syn::parse_str::<syn::WhereClause>("where " + bound): the predicates of *)
(* a well-formed constraint list, in order, or syn's error.                *)
parse_where(bound) ==
    CASE bound = "T: Copy" -> Ok(<<"T: Copy">>)
      [] bound = "U: Eq" -> Ok(<<"U: Eq">>)
      [] bound = "T: Clone, U: Eq" -> Ok(<<"T: Clone", "U: Eq">>)
      [] OTHER -> Err("failed to parse where clause")

(* syn::parse_str::<syn::Path>: a well-formed path, or syn's error.        *)
parse_path(str) ==
    IF str \in {"my_fn", "other::my_fn", "true", "false", "bogus", "bound",
                "ignore", "Clone"}
    THEN Ok(str) ELSE Err("failed to parse path")

(* syn::parse_str::<syn::Expr>: a well-formed expression, or syn's error.  *)
parse_expr(str) ==
    IF str \in {"42", "my_fn", "other::my_fn", "true", "false", "bogus",
                "bound", "ignore", "Clone"}
    THEN Ok(str) ELSE Err("failed to parse expression")

(* The strings syn::Ident::new accepts; it panics on every other one       *)
(* (the empty string, a number, a string that is no identifier).           *)
ValidIdent(str) ==
    str \in {"bound", "clone_from", "transparent", "new",
             "feature_allow_slow_enum", "ignore", "clone_with", "format_with",
             "hash_with", "compare_with", "value", "bogus", "my_fn", "true",
             "false", "Clone"}

----------------------------------------------------------------------------
(* Get the string out of a string literal or report an error.              *)
string_or_err(lit) ==
    IF lit.str THEN Ok(lit.value) ELSE Err("Expected string")

(* parse_bound storing the fragments of the payload in place of the list.  *)
parse_bound_overwrite(opt_bounds, value) ==
    IF ~value.some THEN Err("'bound' needs a value")
    ELSE IF value.s # ""
         THEN LET where_clause == parse_where(value.s)
              IN  IF where_clause.tag = "Ok"
                  THEN Ok(SomeBounds(where_clause.val))
                  ELSE where_clause
         ELSE Ok(SomeBounds(<<>>))

(* parse_bound leaving the list as it was on an empty payload.             *)
parse_bound_skip_empty(opt_bounds, value) ==
    LET bounds == IF opt_bounds.present THEN opt_bounds.preds ELSE <<>>
    IN  IF ~value.some THEN Err("'bound' needs a value")
        ELSE IF value.s # ""
             THEN LET where_clause == parse_where(value.s)
                  IN  IF where_clause.tag = "Ok"
                      THEN Ok(SomeBounds(bounds \o where_clause.val))
                      ELSE where_clause
             ELSE Ok(opt_bounds)

(* Parse a `bound` item: the new value of opt_bounds, or the error.        *)
parse_bound(opt_bounds, value) ==
    LET bounds == IF opt_bounds.present THEN opt_bounds.preds ELSE <<>>
    IN  IF ~value.some THEN Err("'bound' needs a value")
        ELSE IF value.s # ""
             THEN LET where_clause == parse_where(value.s)
                  IN  IF where_clause.tag = "Ok"
                      THEN Ok(SomeBounds(bounds \o where_clause.val))
                      ELSE where_clause
             ELSE Ok(SomeBounds(bounds))

(* Parse an item value as a boolean.                                       *)
parse_boolean_meta_item(item, default, name) ==
    IF ~item.some THEN Ok(default)
    ELSE IF item.s = "true" THEN Ok(TRUE)
    ELSE IF item.s = "false" THEN Ok(FALSE)
    ELSE Err("Invalid value for '" \o name \o "'")

(* A function-reference option or `value`: the payload is required and is  *)
(* parsed by the sub-parser.                                               *)
parse_with(value, name, isExpr) ==
    IF ~value.some THEN Err("'" \o name \o "' needs a value")
    ELSE LET r == IF isExpr THEN parse_expr(value.s) ELSE parse_path(value.s)
         IN  IF r.tag = "Ok" THEN Ok(Some(r.val)) ELSE r

----------------------------------------------------------------------------
(* The `?` operator on a Result: the value goes on through F, an error or  *)
(* a panic is returned as it is.                                           *)
Try(r, F(_)) == IF r.tag = "Ok" THEN Ok(F(r.val)) ELSE r

(* Option<T> of a sub-configuration: [some, d].                            *)
Absent(dflt) == [some |-> FALSE, d |-> dflt]

Present(x) == [some |-> TRUE, d |-> x]

(* unwrap_or_default() giving the default also for a present value.       *)
unwrap_or_default_fresh(opt, dflt) == dflt

(* Option::take().unwrap_or_default()                                      *)
unwrap_or_default(opt, dflt) == IF opt.some THEN opt.d ELSE dflt

----------------------------------------------------------------------------
(* derivative_attribute keeping the items of every list attribute.        *)
derivative_attribute_any_list(attr) ==
    IF attr.kind = "List"
    THEN [some |-> TRUE, nested |-> attr.nested]
    ELSE [some |-> FALSE, nested |-> <<>>]

(* Filter the `derivative` items from an attribute.                        *)
derivative_attribute(attr) ==
    IF attr.kind = "List" /\ attr.ident = "derivative"
    THEN [some |-> TRUE, nested |-> attr.nested]
    ELSE [some |-> FALSE, nested |-> <<>>]

(* read_values taking a bare name in the list as an option with no value.  *)
RECURSIVE read_values_bare_ok(_)
read_values_bare_ok(nested) ==
    IF nested = <<>> THEN Ok(<<>>)
    ELSE LET value == Head(nested)
         IN  IF value.kind = "NameValue"
             THEN LET string_lit == string_or_err(value.lit)
                  IN  IF string_lit.tag # "Ok" THEN string_lit
                      ELSE Try(read_values_bare_ok(Tail(nested)),
                               LAMBDA rest:
                                 <<[name |-> value.ident,
                                    value |-> Some(string_lit.val)]>> \o rest)
             ELSE IF value.kind = "Word"
             THEN Try(read_values_bare_ok(Tail(nested)),
                      LAMBDA rest:
                        <<[name |-> value.ident, value |-> None]>> \o rest)
             ELSE Err("Expected named value")

(* The values of a Meta::List: every nested entry must be name = "string". *)
(* collect::<Result<_, _>>() stops at the first entry that is not.         *)
RECURSIVE read_values(_)
read_values(nested) ==
    IF nested = <<>> THEN Ok(<<>>)
    ELSE LET value == Head(nested)
         IN  IF value.kind = "NameValue"
             THEN LET string_lit == string_or_err(value.lit)
                  IN  IF string_lit.tag # "Ok" THEN string_lit
                      ELSE Try(read_values(Tail(nested)),
                               LAMBDA rest:
                                 <<[name |-> value.ident,
                                    value |-> Some(string_lit.val)]>> \o rest)
             ELSE Err("Expected named value")

(* syn::Ident::from(string_lit) of the name = "string" shape: the          *)
(* identifier, or the panic of syn::Ident::new.                            *)
ident_from(string_lit) ==
    IF ValidIdent(string_lit) THEN Ok(string_lit)
    ELSE Panic("not a valid ident")

(* Parse an arbitrary meta for the limited Meta subset: Meta(name, values) *)
read_meta(meta) ==
    CASE meta.kind = "Literal" -> Err("Expected meta but found literal")
      [] meta.kind = "Word" -> Ok([name |-> meta.ident, values |-> <<>>])
      [] meta.kind = "List" ->
            Try(read_values(meta.nested),
                LAMBDA values: [name |-> meta.ident, values |-> values])
      [] meta.kind = "NameValue" ->
            LET string_lit == string_or_err(meta.lit)
            IN  IF string_lit.tag # "Ok" THEN string_lit
                ELSE Try(ident_from(string_lit.val),
                         LAMBDA id: [name |-> meta.ident,
                                     values |-> <<[name |-> id,
                                                   value |-> None]>>])

----------------------------------------------------------------------------
(* The records and their Default::default()                                *)

InputCloneDefault ==
    [bounds |-> NoBounds, clone_from |-> FALSE,
     rustc_copy_clone_marker |-> FALSE]

InputCopyDefault == [bounds |-> NoBounds, derives_clone |-> FALSE]

InputDebugDefault == [bounds |-> NoBounds, transparent |-> FALSE]

InputDefaultDefault == [bounds |-> NoBounds, new |-> FALSE]

InputEqDefault == [bounds |-> NoBounds]

InputHashDefault == [bounds |-> NoBounds]

InputPartialEqDefault == [bounds |-> NoBounds, on_enum |-> FALSE]

InputDefault ==
    [clone |-> Absent(InputCloneDefault),
     copy |-> Absent(InputCopyDefault),
     debug |-> Absent(InputDebugDefault),
     default |-> Absent(InputDefaultDefault),
     eq |-> Absent(InputEqDefault),
     hash |-> Absent(InputHashDefault),
     partial_eq |-> Absent(InputPartialEqDefault)]

FieldDefault ==
    [clone |-> [bounds |-> NoBounds, clone_with |-> None],
     copy_bound |-> NoBounds,
     debug |-> [bounds |-> NoBounds, format_with |-> None, ignore |-> FALSE],
     default |-> [bounds |-> NoBounds, value |-> None],
     eq_bound |-> NoBounds,
     hash |-> [bounds |-> NoBounds, hash_with |-> None, ignore |-> FALSE],
     partial_eq |-> [bounds |-> NoBounds, compare_with |-> None,
                     ignore |-> FALSE]]

----------------------------------------------------------------------------
(* The arms of match_attributes!: one option (name, value) applied to the  *)
(* record the arm mutates.                                                 *)

(* The fallback arm of match_attributes! with the message of the other.   *)
unknown_attribute_as_trait(name) == Err("unknown trait '" \o name \o "'")

(* The fallback arm of match_attributes!                                   *)
unknown_attribute(name) == Err("unknown attribute '" \o name \o "'")

(* The fallback arm of for_all_attr!                                       *)
unknown_trait(name) == Err("unknown trait '" \o name \o "'")

InputCloneOption(clone, name, value) ==
    CASE name = "bound" ->
            Try(parse_bound(clone.bounds, value),
                LAMBDA b: [clone EXCEPT !.bounds = b])
      [] name = "clone_from" ->
            Try(parse_boolean_meta_item(value, TRUE, "clone_from"),
                LAMBDA b: [clone EXCEPT !.clone_from = b])
      [] OTHER -> unknown_attribute(name)

InputCopyOption(copy, name, value) ==
    CASE name = "bound" ->
            Try(parse_bound(copy.bounds, value),
                LAMBDA b: [copy EXCEPT !.bounds = b])
      [] OTHER -> unknown_attribute(name)

InputDebugOption(debug, name, value) ==
    CASE name = "bound" ->
            Try(parse_bound(debug.bounds, value),
                LAMBDA b: [debug EXCEPT !.bounds = b])
      [] name = "transparent" ->
            Try(parse_boolean_meta_item(value, TRUE, "transparent"),
                LAMBDA b: [debug EXCEPT !.transparent = b])
      [] OTHER -> unknown_attribute(name)

InputDefaultOption(default, name, value) ==
    CASE name = "bound" ->
            Try(parse_bound(default.bounds, value),
                LAMBDA b: [default EXCEPT !.bounds = b])
      [] name = "new" ->
            Try(parse_boolean_meta_item(value, TRUE, "new"),
                LAMBDA b: [default EXCEPT !.new = b])
      [] OTHER -> unknown_attribute(name)

InputEqOption(eq, name, value) ==
    CASE name = "bound" ->
            Try(parse_bound(eq.bounds, value),
                LAMBDA b: [eq EXCEPT !.bounds = b])
      [] OTHER -> unknown_attribute(name)

InputHashOption(hash, name, value) ==
    CASE name = "bound" ->
            Try(parse_bound(hash.bounds, value),
                LAMBDA b: [hash EXCEPT !.bounds = b])
      [] OTHER -> unknown_attribute(name)

InputPartialEqOption(partial_eq, name, value) ==
    CASE name = "bound" ->
            Try(parse_bound(partial_eq.bounds, value),
                LAMBDA b: [partial_eq EXCEPT !.bounds = b])
      [] name = "feature_allow_slow_enum" ->
            Try(parse_boolean_meta_item(value, TRUE,
                                        "feature_allow_slow_enum"),
                LAMBDA b: [partial_eq EXCEPT !.on_enum = b])
      [] OTHER -> unknown_attribute(name)

FieldCloneOption(o, name, value) ==
    CASE name = "bound" ->
            Try(parse_bound(o.clone.bounds, value),
                LAMBDA b: [o EXCEPT !.clone.bounds = b])
      [] name = "clone_with" ->
            Try(parse_with(value, "clone_with", FALSE),
                LAMBDA p: [o EXCEPT !.clone.clone_with = p])
      [] OTHER -> unknown_attribute(name)

FieldDebugOption(o, name, value) ==
    CASE name = "bound" ->
            Try(parse_bound(o.debug.bounds, value),
                LAMBDA b: [o EXCEPT !.debug.bounds = b])
      [] name = "format_with" ->
            Try(parse_with(value, "format_with", FALSE),
                LAMBDA p: [o EXCEPT !.debug.format_with = p])
      [] name = "ignore" ->
            Try(parse_boolean_meta_item(value, TRUE, "ignore"),
                LAMBDA b: [o EXCEPT !.debug.ignore = b])
      [] OTHER -> unknown_attribute(name)

FieldDefaultOption(o, name, value) ==
    CASE name = "bound" ->
            Try(parse_bound(o.default.bounds, value),
                LAMBDA b: [o EXCEPT !.default.bounds = b])
      [] name = "value" ->
            Try(parse_with(value, "value", TRUE),
                LAMBDA e: [o EXCEPT !.default.value = e])
      [] OTHER -> unknown_attribute(name)

FieldEqOption(o, name, value) ==
    CASE name = "bound" ->
            Try(parse_bound(o.eq_bound, value),
                LAMBDA b: [o EXCEPT !.eq_bound = b])
      [] OTHER -> unknown_attribute(name)

FieldHashOption(o, name, value) ==
    CASE name = "bound" ->
            Try(parse_bound(o.hash.bounds, value),
                LAMBDA b: [o EXCEPT !.hash.bounds = b])
      [] name = "hash_with" ->
            Try(parse_with(value, "hash_with", FALSE),
                LAMBDA p: [o EXCEPT !.hash.hash_with = p])
      [] name = "ignore" ->
            Try(parse_boolean_meta_item(value, TRUE, "ignore"),
                LAMBDA b: [o EXCEPT !.hash.ignore = b])
      [] OTHER -> unknown_attribute(name)

FieldPartialEqOption(o, name, value) ==
    CASE name = "bound" ->
            Try(parse_bound(o.partial_eq.bounds, value),
                LAMBDA b: [o EXCEPT !.partial_eq.bounds = b])
      [] name = "compare_with" ->
            Try(parse_with(value, "compare_with", FALSE),
                LAMBDA p: [o EXCEPT !.partial_eq.compare_with = p])
      [] name = "ignore" ->
            Try(parse_boolean_meta_item(value, TRUE, "ignore"),
                LAMBDA b: [o EXCEPT !.partial_eq.ignore = b])
      [] OTHER -> unknown_attribute(name)

(* The body of the loop of match_attributes! for the arms of one place.    *)
MatchArm(place, acc, name, value) ==
    CASE place = "Input.Clone" -> InputCloneOption(acc, name, value)
      [] place = "Input.Copy" -> InputCopyOption(acc, name, value)
      [] place = "Input.Debug" -> InputDebugOption(acc, name, value)
      [] place = "Input.Default" -> InputDefaultOption(acc, name, value)
      [] place = "Input.Eq" -> InputEqOption(acc, name, value)
      [] place = "Input.Hash" -> InputHashOption(acc, name, value)
      [] place = "Input.PartialEq" -> InputPartialEqOption(acc, name, value)
      [] place = "Field.Clone" -> FieldCloneOption(acc, name, value)
      [] place = "Field.Debug" -> FieldDebugOption(acc, name, value)
      [] place = "Field.Default" -> FieldDefaultOption(acc, name, value)
      [] place = "Field.Eq" -> FieldEqOption(acc, name, value)
      [] place = "Field.Hash" -> FieldHashOption(acc, name, value)
      [] place = "Field.PartialEq" -> FieldPartialEqOption(acc, name, value)

(* match_attributes! going on after an error and returning the last one.   *)
RECURSIVE match_attributes_last_error(_, _, _)
match_attributes_last_error(place, acc, values) ==
    IF values = <<>> THEN Ok(acc)
    ELSE LET r == MatchArm(place, acc, Head(values).name, Head(values).value)
             rest == match_attributes_last_error(
                        place, IF r.tag = "Ok" THEN r.val ELSE acc, Tail(values))
         IN  IF r.tag = "Ok" \/ rest.tag # "Ok" THEN rest ELSE r

(* match_attributes! { for value in values; ... }: the options in order,   *)
(* returning at the first error.                                           *)
RECURSIVE match_attributes(_, _, _)
match_attributes(place, acc, values) ==
    IF values = <<>> THEN Ok(acc)
    ELSE LET r == MatchArm(place, acc, Head(values).name, Head(values).value)
         IN  IF r.tag = "Ok"
             THEN match_attributes(place, r.val, Tail(values))
             ELSE r

(* match_attributes! starting every block from the default.                *)
match_attributes_some_fresh(place, unwrapped, dflt, values) ==
    Try(match_attributes(place, dflt, values), LAMBDA x: Present(x))

(* match_attributes! { let Some(name) = unwrapped; ... }: take the         *)
(* sub-configuration or its default, run the options, store it as present. *)
match_attributes_some(place, unwrapped, dflt, values) ==
    Try(match_attributes(place, unwrap_or_default(unwrapped, dflt), values),
        LAMBDA x: Present(x))

----------------------------------------------------------------------------
(* The scans of Input::from_ast over the whole attribute list.             *)

(* Whether an attribute's path is the single segment                       *)
(* rustc_copy_clone_marker (the Clone arm).                                *)
has_rustc_copy_clone_marker(as) ==
    \E i \in DOMAIN as : as[i].ident = "rustc_copy_clone_marker"

(* The derive scan taking every derive(...) for one that lists Clone.      *)
has_derive_clone_any_derive(as) ==
    \E i \in DOMAIN as : as[i].kind = "List" /\ as[i].ident = "derive"

is_clone(elem) == elem.kind # "Literal" /\ elem.ident = "Clone"

(* Whether an attribute is a derive(...) list naming Clone (the Copy arm). *)
has_derive_clone(as) ==
    \E i \in DOMAIN as :
        /\ as[i].kind = "List"
        /\ as[i].ident = "derive"
        /\ \E j \in DOMAIN as[i].nested : is_clone(as[i].nested[j])

(* The arms of for_all_attr! in Input::from_ast, for one Meta(name,values) *)
InputArm(as, inp, name, values) ==
    CASE name = "Clone" ->
            LET clone == [unwrap_or_default(inp.clone, InputCloneDefault)
                            EXCEPT !.rustc_copy_clone_marker =
                                        has_rustc_copy_clone_marker(as)]
            IN  Try(match_attributes("Input.Clone", clone, values),
                    LAMBDA c: [inp EXCEPT !.clone = Present(c)])
      [] name = "Copy" ->
            LET copy0 == unwrap_or_default(inp.copy, InputCopyDefault)
                copy == IF has_derive_clone(as)
                        THEN [copy0 EXCEPT !.derives_clone = TRUE]
                        ELSE copy0
            IN  Try(match_attributes("Input.Copy", copy, values),
                    LAMBDA c: [inp EXCEPT !.copy = Present(c)])
      [] name = "Debug" ->
            Try(match_attributes_some("Input.Debug", inp.debug,
                                      InputDebugDefault, values),
                LAMBDA d: [inp EXCEPT !.debug = d])
      [] name = "Default" ->
            Try(match_attributes_some("Input.Default", inp.default,
                                      InputDefaultDefault, values),
                LAMBDA d: [inp EXCEPT !.default = d])
      [] name = "Eq" ->
            Try(match_attributes_some("Input.Eq", inp.eq,
                                      InputEqDefault, values),
                LAMBDA d: [inp EXCEPT !.eq = d])
      [] name = "Hash" ->
            Try(match_attributes_some("Input.Hash", inp.hash,
                                      InputHashDefault, values),
                LAMBDA d: [inp EXCEPT !.hash = d])
      [] name = "PartialEq" ->
            Try(match_attributes_some("Input.PartialEq", inp.partial_eq,
                                      InputPartialEqDefault, values),
                LAMBDA d: [inp EXCEPT !.partial_eq = d])
      [] OTHER -> unknown_trait(name)

(* The arms of for_all_attr! in Field::from_ast.                           *)
FieldArm(o, name, values) ==
    CASE name = "Clone" -> match_attributes("Field.Clone", o, values)
      [] name = "Debug" -> match_attributes("Field.Debug", o, values)
      [] name = "Default" -> match_attributes("Field.Default", o, values)
      [] name = "Eq" -> match_attributes("Field.Eq", o, values)
      [] name = "Hash" -> match_attributes("Field.Hash", o, values)
      [] name = "PartialEq" -> match_attributes("Field.PartialEq", o, values)
      [] OTHER -> unknown_trait(name)

(* The turn of the inner loop with the arms working on an empty Input.     *)
InputMetaStep_fresh(as, inp, meta) ==
    LET m == read_meta(meta)
    IN  IF m.tag # "Ok" THEN m
        ELSE InputArm(as, InputDefault, m.val.name, m.val.values)

(* One turn of the inner loop of for_all_attr!: read_meta, then the arms.  *)
InputMetaStep(as, inp, meta) ==
    LET m == read_meta(meta)
    IN  IF m.tag # "Ok" THEN m
        ELSE InputArm(as, inp, m.val.name, m.val.values)

FieldMetaStep(o, meta) ==
    LET m == read_meta(meta)
    IN  IF m.tag # "Ok" THEN m
        ELSE FieldArm(o, m.val.name, m.val.values)

(* The nested metas for_all_attr! visits, in order: those of every         *)
(* attribute derivative_attribute keeps.                                   *)
RECURSIVE nested_metas(_)
nested_metas(as) ==
    IF as = <<>> THEN <<>>
    ELSE derivative_attribute(Head(as)).nested \o nested_metas(Tail(as))

RECURSIVE InputLoop(_, _, _)
InputLoop(as, inp, metas) ==
    IF metas = <<>> THEN Ok(inp)
    ELSE LET r == InputMetaStep(as, inp, Head(metas))
         IN  IF r.tag = "Ok" THEN InputLoop(as, r.val, Tail(metas)) ELSE r

RECURSIVE FieldLoop(_, _)
FieldLoop(o, metas) ==
    IF metas = <<>> THEN Ok(o)
    ELSE LET r == FieldMetaStep(o, Head(metas))
         IN  IF r.tag = "Ok" THEN FieldLoop(r.val, Tail(metas)) ELSE r

(* Input::from_ast and Field::from_ast as functions of the attributes.     *)
Input_from_ast(as) == InputLoop(as, InputDefault, nested_metas(as))

Field_from_ast(as) == FieldLoop(FieldDefault, nested_metas(as))

----------------------------------------------------------------------------
(* The accessors.                                                          *)

Input_clone_bound(inp) == IF inp.clone.some THEN inp.clone.d.bounds ELSE NoBounds

Input_clone_from(inp) == inp.clone.some /\ inp.clone.d.clone_from

Input_copy_bound(inp) == IF inp.copy.some THEN inp.copy.d.bounds ELSE NoBounds

Input_derives_clone(inp) == inp.copy.some /\ inp.copy.d.derives_clone

Input_debug_bound(inp) == IF inp.debug.some THEN inp.debug.d.bounds ELSE NoBounds

Input_debug_transparent(inp) == inp.debug.some /\ inp.debug.d.transparent

Input_default_bound(inp) ==
    IF inp.default.some THEN inp.default.d.bounds ELSE NoBounds

Input_eq_bound(inp) == IF inp.eq.some THEN inp.eq.d.bounds ELSE NoBounds

Input_hash_bound(inp) == IF inp.hash.some THEN inp.hash.d.bounds ELSE NoBounds

Input_rustc_copy_clone_marker(inp) ==
    inp.clone.some /\ inp.clone.d.rustc_copy_clone_marker

Input_partial_eq_bound(inp) ==
    IF inp.partial_eq.some THEN inp.partial_eq.d.bounds ELSE NoBounds

Input_partial_eq_on_enum(inp) == inp.partial_eq.some /\ inp.partial_eq.d.on_enum

Field_clone_bound(o) == o.clone.bounds

Field_clone_with(o) == o.clone.clone_with

Field_copy_bound(o) == o.copy_bound

Field_debug_bound(o) == o.debug.bounds

Field_debug_format_with(o) == o.debug.format_with

Field_ignore_debug(o) == o.debug.ignore

Field_ignore_hash(o) == o.hash.ignore

Field_default_bound(o) == o.default.bounds

Field_default_value(o) == o.default.value

Field_eq_bound(o) == o.eq_bound

Field_hash_bound(o) == o.hash.bounds

Field_hash_with(o) == o.hash.hash_with

Field_partial_eq_bound(o) == o.partial_eq.bounds

Field_partial_eq_compare_with(o) == o.partial_eq.compare_with

Field_ignore_partial_eq(o) == o.partial_eq.ignore

----------------------------------------------------------------------------
(* The syntax trees given to from_ast.                                     *)

StrLit(str) == [str |-> TRUE, value |-> str]

IntLit == [str |-> FALSE, value |-> "3"]

NoLit == [str |-> FALSE, value |-> ""]

Word(id) == [kind |-> "Word", ident |-> id, lit |-> NoLit, nested |-> <<>>]

NameValue(id, l) ==
    [kind |-> "NameValue", ident |-> id, lit |-> l, nested |-> <<>>]

List(id, ns) == [kind |-> "List", ident |-> id, lit |-> NoLit, nested |-> ns]

Literal(l) == [kind |-> "Literal", ident |-> "", lit |-> l, nested |-> <<>>]

(* An attribute interpret_meta() gives no meta for.                        *)
Opaque(id) == [kind |-> "None", ident |-> id, lit |-> NoLit, nested |-> <<>>]

Derivative(ns) == List("derivative", ns)

Capabilities ==
    {"Clone", "Copy", "Debug", "Default", "Eq", "Hash", "PartialEq"}

Levels == {"type", "field"}

(* The boolean toggle and the function-reference (or `value`) option a     *)
(* capability has at a level; where it has none, a name of another         *)
(* capability, which is then unknown there.                                *)
ToggleOf(lv, c) ==
    IF lv = "type"
    THEN CASE c = "Clone" -> "clone_from"
           [] c = "Debug" -> "transparent"
           [] c = "Default" -> "new"
           [] c = "PartialEq" -> "feature_allow_slow_enum"
           [] OTHER -> "ignore"
    ELSE "ignore"

WithOf(lv, c) ==
    IF lv = "field"
    THEN CASE c = "Clone" -> "clone_with"
           [] c = "Debug" -> "format_with"
           [] c = "Default" -> "value"
           [] c = "Hash" -> "hash_with"
           [] c = "PartialEq" -> "compare_with"
           [] OTHER -> "clone_with"
    ELSE "clone_with"

(* Bounds of the inputs.                                                   *)
MaxItems == 2

MaxBounds == 3

MaxAttrs == 3

BoundPayloads == {"T: Copy", "T: Clone, U: Eq", ""}

(* The entries written inside the nested list of a capability block.       *)
BoundEntries == {NameValue("bound", StrLit(p)) : p \in BoundPayloads}

Entries(lv, c) ==
    BoundEntries
    \cup {NameValue("bound", StrLit("T:")), NameValue("bound", IntLit),
          NameValue("bogus", StrLit("x")), Word(ToggleOf(lv, c))}
    \cup {NameValue(ToggleOf(lv, c), StrLit(p)) : p \in {"true", "false", "maybe"}}
    \cup {NameValue(WithOf(lv, c), StrLit(p)) : p \in {"my_fn", "other::my_fn"}}

(* The nodes written whole: the bare name, the name = "string" shorthand,  *)
(* a literal, an empty list, a name that is no capability.                 *)
Nodes(lv, c) ==
    {Word(c), List(c, <<>>), Literal(StrLit("x")), Word("Foo"),
     NameValue(c, IntLit)}
    \cup {NameValue(c, StrLit(p)) :
            p \in {ToggleOf(lv, c), WithOf(lv, c), "bound", "", "T: Copy"}}

Items(lv, c) ==
    {[entry |-> TRUE, m |-> e] : e \in Entries(lv, c)}
    \cup {[entry |-> FALSE, m |-> n] : n \in Nodes(lv, c)}

BoundItems == {[entry |-> TRUE, m |-> e] : e \in BoundEntries}

MaxSlots == 3

MaxBlocks == 2

(* The single-slot options of one capability with a valid payload, and the *)
(* block of the capability that mentions no option.                        *)
SlotItems(lv, c) ==
    {[entry |-> TRUE, m |-> NameValue(ToggleOf(lv, c), StrLit(p))] :
        p \in {"true", "false"}}
    \cup {[entry |-> TRUE, m |-> NameValue(WithOf(lv, c), StrLit(p))] :
            p \in {"my_fn", "other::my_fn"}}
    \cup {[entry |-> FALSE, m |-> Word(c)]}

(* The blocks of every capability: the bare name, or a list of one option. *)
BlockItems(lv) ==
    {[entry |-> FALSE, m |-> Word(c)] : c \in Capabilities}
    \cup {[entry |-> FALSE, m |-> List(c, <<e>>)] :
            c \in Capabilities,
            e \in {NameValue("bound", StrLit("T: Copy")),
                   NameValue("ignore", StrLit("true")),
                   NameValue("transparent", StrLit("true"))}}

(* Where an item is written relative to the one before it: in the same     *)
(* nested list, as a new node of the same attribute, in a new attribute.   *)
GapKinds == {"same", "node", "attr"}

(* Where a block is written relative to the one before it.                 *)
BlockGaps == {"node", "attr"}

RECURSIVE Layout(_, _, _, _, _)
Layout(c, items, gaps, i, acc) ==
    IF i > Len(items) THEN acc
    ELSE LET it == items[i]
             gap == IF i = 1 THEN "attr" ELSE gaps[i - 1]
             node == IF it.entry THEN List(c, <<it.m>>) ELSE it.m
             a == Len(acc)
             n == IF a = 0 THEN 0 ELSE Len(acc[a].nested)
             joins == /\ gap = "same"
                      /\ it.entry
                      /\ items[i - 1].entry
             next == IF joins
                     THEN [acc EXCEPT ![a].nested[n].nested = Append(@, it.m)]
                     ELSE IF gap = "attr"
                          THEN Append(acc, Derivative(<<node>>))
                          ELSE [acc EXCEPT ![a].nested = Append(@, node)]
         IN  Layout(c, items, gaps, i + 1, next)

(* The attributes of the declarations that exercise the scans.             *)
ScanAttrs ==
    {List("derive", <<Word("Clone")>>), List("derive", <<Word("Debug")>>),
     Word("rustc_copy_clone_marker"), NameValue("doc", StrLit("x")),
     Word("derivative"), Opaque("cfg"),
     Derivative(<<Word("Clone")>>), Derivative(<<Word("Copy")>>),
     Derivative(<<Word("Debug")>>),
     Derivative(<<List("Copy", <<NameValue("bound", StrLit("T: Copy"))>>)>>)}

(* The inputs: the items of one capability in every layout, the bound     *)
(* options of one capability in every layout, its single-slot options in   *)
(* every layout, blocks of several capabilities, the scanned attributes.   *)
IsInput(lv, as) ==
    \/ \E c \in Capabilities, k \in 1..MaxItems :
         \E items \in [1..k -> Items(lv, c)], gaps \in [1..(k - 1) -> GapKinds] :
            as = Layout(c, items, gaps, 1, <<>>)
    \/ \E c \in Capabilities, k \in 1..MaxBounds :
         \E items \in [1..k -> BoundItems], gaps \in [1..(k - 1) -> GapKinds] :
            as = Layout(c, items, gaps, 1, <<>>)
    \/ \E c \in Capabilities, k \in 1..MaxSlots :
         \E items \in [1..k -> SlotItems(lv, c)], gaps \in [1..(k - 1) -> GapKinds] :
            as = Layout(c, items, gaps, 1, <<>>)
    \/ \E k \in 1..MaxBlocks :
         \E items \in [1..k -> BlockItems(lv)], gaps \in [1..(k - 1) -> BlockGaps] :
            as = Layout("", items, gaps, 1, <<>>)
    \/ \E k \in 0..MaxAttrs : as \in [1..k -> ScanAttrs]

----------------------------------------------------------------------------
(* The run of from_ast over the attributes: ai is the attribute the outer  *)
(* loop of for_all_attr! is at, ni the nested meta the inner loop is at.   *)

Running == [tag |-> "Running", val |-> <<>>, err |-> ""]

Init ==
    /\ level \in Levels
    /\ IsInput(level, attrs)
    /\ ai = 1
    /\ ni = 1
    /\ input = InputDefault
    /\ out = FieldDefault
    /\ pc = "loop"
    /\ result = Running

(* filter_map: an attribute derivative_attribute gives None for is passed. *)
FilterAttribute ==
    /\ pc = "loop"
    /\ ai <= Len(attrs)
    /\ ~derivative_attribute(attrs[ai]).some
    /\ ai' = ai + 1
    /\ UNCHANGED <<level, attrs, ni, input, out, pc, result>>

(* The nested metas of the attribute are used up: the outer loop goes on.  *)
EndNested ==
    /\ pc = "loop"
    /\ ai <= Len(attrs)
    /\ derivative_attribute(attrs[ai]).some
    /\ ni > Len(derivative_attribute(attrs[ai]).nested)
    /\ ai' = ai + 1
    /\ ni' = 1
    /\ UNCHANGED <<level, attrs, input, out, pc, result>>

(* One nested meta in Input::from_ast.                                     *)
InputMeta ==
    /\ pc = "loop"
    /\ level = "type"
    /\ ai <= Len(attrs)
    /\ derivative_attribute(attrs[ai]).some
    /\ ni <= Len(derivative_attribute(attrs[ai]).nested)
    /\ LET r == InputMetaStep(attrs, input,
                              derivative_attribute(attrs[ai]).nested[ni])
       IN  IF r.tag = "Ok"
           THEN /\ input' = r.val
                /\ ni' = ni + 1
                /\ UNCHANGED <<pc, result>>
           ELSE /\ result' = r
                /\ pc' = "done"
                /\ UNCHANGED <<input, ni>>
    /\ UNCHANGED <<level, attrs, ai, out>>

(* One nested meta in Field::from_ast.                                     *)
FieldMeta ==
    /\ pc = "loop"
    /\ level = "field"
    /\ ai <= Len(attrs)
    /\ derivative_attribute(attrs[ai]).some
    /\ ni <= Len(derivative_attribute(attrs[ai]).nested)
    /\ LET r == FieldMetaStep(out, derivative_attribute(attrs[ai]).nested[ni])
       IN  IF r.tag = "Ok"
           THEN /\ out' = r.val
                /\ ni' = ni + 1
                /\ UNCHANGED <<pc, result>>
           ELSE /\ result' = r
                /\ pc' = "done"
                /\ UNCHANGED <<out, ni>>
    /\ UNCHANGED <<level, attrs, ai, input>>

(* Ok(input), Ok(out)                                                      *)
ReturnOk ==
    /\ pc = "loop"
    /\ ai > Len(attrs)
    /\ result' = Ok(IF level = "type" THEN input ELSE out)
    /\ pc' = "done"
    /\ UNCHANGED <<level, attrs, ai, ni, input, out>>

Next == FilterAttribute \/ EndNested \/ InputMeta \/ FieldMeta \/ ReturnOk

Spec == Init /\ [][Next]_vars

----------------------------------------------------------------------------
(* What the claims speak of, read off the attributes as written.           *)

Done == pc = "done"

Succeeded == pc = "done" /\ result.tag = "Ok"

RECURSIVE Flatten(_)
Flatten(seqs) == IF seqs = <<>> THEN <<>> ELSE Head(seqs) \o Flatten(Tail(seqs))

(* The top-level nodes written in the derivative(...) attributes, in       *)
(* source order.                                                           *)
Written(as) ==
    Flatten([i \in 1..Len(as) |->
                IF as[i].kind = "List" /\ as[i].ident = "derivative"
                THEN as[i].nested ELSE <<>>])

(* The namespaced top-level nodes naming `c`, in source order.             *)
BlocksOf(as, c) ==
    SelectSeq(Written(as), LAMBDA n : n.kind # "Literal" /\ n.ident = c)

HasBlock(as, c) == BlocksOf(as, c) # <<>>

(* The entries written in the nested lists of the blocks of `c`.           *)
EntriesOf(as, c) ==
    LET blocks == SelectSeq(BlocksOf(as, c), LAMBDA n : n.kind = "List")
    IN  Flatten([i \in 1..Len(blocks) |-> blocks[i].nested])

IsBoundEntry(e) == e.kind = "NameValue" /\ e.ident = "bound" /\ e.lit.str

(* The payloads of the `bound` options of `c`, in occurrence order.        *)
BoundPayloadsOf(as, c) ==
    LET sel == SelectSeq(EntriesOf(as, c), IsBoundEntry)
    IN  [i \in 1..Len(sel) |-> sel[i].lit.value]

(* The fragments of a sequence of payloads, one payload after the other.   *)
RECURSIVE ConcatFragments(_)
ConcatFragments(ps) ==
    IF ps = <<>> THEN <<>>
    ELSE (IF Head(ps) = "" THEN <<>> ELSE parse_where(Head(ps)).val)
         \o ConcatFragments(Tail(ps))

(* The *_bound accessor of a capability.                                   *)
BoundOf(lv, c, cfg) ==
    IF lv = "type"
    THEN CASE c = "Clone" -> Input_clone_bound(cfg)
           [] c = "Copy" -> Input_copy_bound(cfg)
           [] c = "Debug" -> Input_debug_bound(cfg)
           [] c = "Default" -> Input_default_bound(cfg)
           [] c = "Eq" -> Input_eq_bound(cfg)
           [] c = "Hash" -> Input_hash_bound(cfg)
           [] c = "PartialEq" -> Input_partial_eq_bound(cfg)
    ELSE CASE c = "Clone" -> Field_clone_bound(cfg)
           [] c = "Copy" -> Field_copy_bound(cfg)
           [] c = "Debug" -> Field_debug_bound(cfg)
           [] c = "Default" -> Field_default_bound(cfg)
           [] c = "Eq" -> Field_eq_bound(cfg)
           [] c = "Hash" -> Field_hash_bound(cfg)
           [] c = "PartialEq" -> Field_partial_eq_bound(cfg)

(* from_ast of the level, as a function.                                   *)
FromAst(lv, as) == IF lv = "type" THEN Input_from_ast(as) ELSE Field_from_ast(as)

----------------------------------------------------------------------------
(* C2: on success the bound list of every capability is the concatenation  *)
(* of the fragments of all its `bound` payloads in occurrence order,       *)
(* whether they stand in one block or in several; it is present as soon as *)
(* one `bound` option was given.                                           *)
C2_BoundAccumulation ==
    Succeeded =>
        \A c \in Capabilities :
            LET ps == BoundPayloadsOf(attrs, c)
                b == BoundOf(level, c, result.val)
            IN  /\ b.preds = ConcatFragments(ps)
                /\ b.present = (ps # <<>>)

(* Three non-empty payloads, two of them different, spread over two blocks *)
C2_Witness ==
    /\ Succeeded
    /\ \E c \in Capabilities :
        LET ps == BoundPayloadsOf(attrs, c)
        IN  /\ Len(ps) = 3
            /\ \A i \in 1..3 : ps[i] # ""
            /\ ps[1] # ps[2]
            /\ Len(BlocksOf(attrs, c)) = 2
            /\ Len(BoundOf(level, c, result.val).preds) >= 4

----------------------------------------------------------------------------
(* The attributes with every `bound = ""` entry taken out of its list.     *)
IsEmptyBound(e) == IsBoundEntry(e) /\ e.lit.value = ""

WithoutEmptyBoundsIn(node) ==
    IF node.kind = "List"
    THEN [node EXCEPT !.nested = SelectSeq(@, LAMBDA e : ~IsEmptyBound(e))]
    ELSE node

WithoutEmptyBounds(as) ==
    [i \in 1..Len(as) |->
        IF as[i].kind = "List" /\ as[i].ident = "derivative"
        THEN [as[i] EXCEPT !.nested =
                [j \in 1..Len(@) |-> WithoutEmptyBoundsIn(@[j])]]
        ELSE as[i]]

HasEmptyBound(as, c) == \E i \in DOMAIN EntriesOf(as, c) : IsEmptyBound(EntriesOf(as, c)[i])

(* C3 as stated: the bound lists the accessors return are those of the     *)
(* same attributes without the `bound = ""` options, an absent list staying *)
(* absent.                                                                 *)
C3_EmptyBoundNoOp ==
    Succeeded =>
        \A c \in Capabilities :
            HasEmptyBound(attrs, c) =>
                BoundOf(level, c, result.val)
                    = BoundOf(level, c, FromAst(level, WithoutEmptyBounds(attrs)).val)

(* C3, amended: a `bound = ""` option adds no fragment, the fragments the  *)
(* accessor returns are those without the option; but the bound list is    *)
(* present afterwards, an absent list becoming a present, empty one.       *)
C3_EmptyBoundAddsNothing ==
    Succeeded =>
        \A c \in Capabilities :
            HasEmptyBound(attrs, c) =>
                LET without == FromAst(level, WithoutEmptyBounds(attrs))
                    b == BoundOf(level, c, result.val)
                IN  /\ without.tag = "Ok"
                    /\ b.preds = BoundOf(level, c, without.val).preds
                    /\ b.present

(* An empty payload after a non-empty one: both fragments are kept.        *)
C3_Witness ==
    /\ Succeeded
    /\ \E c \in Capabilities :
        /\ BoundPayloadsOf(attrs, c) = <<"T: Clone, U: Eq", "">>
        /\ BoundOf(level, c, result.val) = SomeBounds(<<"T: Clone", "U: Eq">>)

----------------------------------------------------------------------------
(* A plain derive(...) listing Clone, and the marker, as written.          *)
PlainDeriveClone(as) ==
    \E i \in DOMAIN as :
        /\ as[i].kind = "List"
        /\ as[i].ident = "derive"
        /\ \E j \in DOMAIN as[i].nested : as[i].nested[j] = Word("Clone")

MarkerWritten(as) == \E i \in DOMAIN as : as[i] = Word("rustc_copy_clone_marker")

(* C5 as stated: on success derives_clone() is true whenever a plain       *)
(* derive lists Clone and rustc_copy_clone_marker() whenever the marker is *)
(* there, whether or not a Clone or Copy block was written.                *)
C5_ScanUnconditional ==
    (Succeeded /\ level = "type") =>
        /\ PlainDeriveClone(attrs) => Input_derives_clone(result.val)
        /\ MarkerWritten(attrs) => Input_rustc_copy_clone_marker(result.val)

(* C5, amended: the scans run in the Copy and Clone arms only. On success  *)
(* derives_clone() is true exactly when a plain derive lists Clone and at  *)
(* least one namespaced Copy block was written, rustc_copy_clone_marker()  *)
(* exactly when the marker is there and at least one namespaced Clone      *)
(* block was written.                                                      *)
C5_ScanInArms ==
    (Succeeded /\ level = "type") =>
        /\ Input_derives_clone(result.val)
                = (PlainDeriveClone(attrs) /\ HasBlock(attrs, "Copy"))
        /\ Input_rustc_copy_clone_marker(result.val)
                = (MarkerWritten(attrs) /\ HasBlock(attrs, "Clone"))

(* A derive(Clone) written after the Copy block is found all the same.     *)
C5_Witness ==
    /\ Succeeded
    /\ level = "type"
    /\ Len(attrs) = 3
    /\ attrs[1] = Derivative(<<Word("Copy")>>)
    /\ attrs[3] = List("derive", <<Word("Clone")>>)
    /\ Input_derives_clone(result.val)
    /\ ~Input_rustc_copy_clone_marker(result.val)

----------------------------------------------------------------------------
(* C6: a field annotated with Copy blocks only, with no options or with    *)
(* `bound` options, is parsed successfully and the payloads populate       *)
(* copy_bound().                                                           *)
OnlyCopyBoundBlocks(as) ==
    /\ HasBlock(as, "Copy")
    /\ \A i \in DOMAIN Written(as) :
        LET n == Written(as)[i]
        IN  /\ n.kind \in {"Word", "List"}
            /\ n.ident = "Copy"
            /\ \A j \in DOMAIN n.nested :
                IsBoundEntry(n.nested[j]) /\ n.nested[j].lit.value # "T:"

C6_FieldCopyRecognized ==
    (Done /\ level = "field" /\ OnlyCopyBoundBlocks(attrs)) =>
        /\ result.tag = "Ok"
        /\ Field_copy_bound(result.val).preds
                = ConcatFragments(BoundPayloadsOf(attrs, "Copy"))

----------------------------------------------------------------------------
(* C9: with no attribute of the `derivative` namespace, whatever other     *)
(* attributes there are, from_ast succeeds; every capability of the type   *)
(* is absent, every boolean accessor false, every bound accessor and every *)
(* function reference absent.                                              *)
NoNamespace(as) == \A i \in DOMAIN as : as[i].ident # "derivative"

C9_NoNamespaceNeutral ==
    (Done /\ NoNamespace(attrs)) =>
        /\ result.tag = "Ok"
        /\ \A c \in Capabilities : BoundOf(level, c, result.val) = NoBounds
        /\ level = "type" =>
            LET r == result.val
            IN  /\ ~r.clone.some /\ ~r.copy.some /\ ~r.debug.some
                /\ ~r.default.some /\ ~r.eq.some /\ ~r.hash.some
                /\ ~r.partial_eq.some
                /\ ~Input_clone_from(r) /\ ~Input_derives_clone(r)
                /\ ~Input_debug_transparent(r)
                /\ ~Input_rustc_copy_clone_marker(r)
                /\ ~Input_partial_eq_on_enum(r)
                /\ ~r.default.d.new
        /\ level = "field" =>
            LET r == result.val
            IN  /\ ~Field_ignore_debug(r) /\ ~Field_ignore_hash(r)
                /\ ~Field_ignore_partial_eq(r)
                /\ Field_clone_with(r) = None
                /\ Field_debug_format_with(r) = None
                /\ Field_default_value(r) = None
                /\ Field_hash_with(r) = None
                /\ Field_partial_eq_compare_with(r) = None

(* A declaration with a plain derive(Clone), the marker and a doc comment. *)
C9_Witness ==
    /\ Done
    /\ level = "type"
    /\ NoNamespace(attrs)
    /\ Len(attrs) = 3
    /\ PlainDeriveClone(attrs)
    /\ MarkerWritten(attrs)
    /\ result.tag = "Ok"

----------------------------------------------------------------------------
(* The capabilities that have a boolean toggle at a level, and its value.  *)
Toggled(lv) ==
    IF lv = "type" THEN {"Clone", "Debug", "Default", "PartialEq"}
    ELSE {"Debug", "Hash", "PartialEq"}

ToggleValue(lv, c, cfg) ==
    IF lv = "type"
    THEN CASE c = "Clone" -> Input_clone_from(cfg)
           [] c = "Debug" -> Input_debug_transparent(cfg)
           [] c = "Default" -> cfg.default.some /\ cfg.default.d.new
           [] c = "PartialEq" -> Input_partial_eq_on_enum(cfg)
    ELSE CASE c = "Debug" -> Field_ignore_debug(cfg)
           [] c = "Hash" -> Field_ignore_hash(cfg)
           [] c = "PartialEq" -> Field_ignore_partial_eq(cfg)

IsErr(r, msg) == r.tag = "Err" /\ r.err = msg

BoundTCopy == NameValue("bound", StrLit("T: Copy"))

(* One block of `c` whose nested list ends with the bare toggle name.      *)
BareToggleInList(lv, c, pre) ==
    <<Derivative(<<List(c, pre \o <<Word(ToggleOf(lv, c))>>)>>)>>

(* C4 as stated: a bare toggle name inside the nested list is accepted and *)
(* sets the toggle, alone or after bound = "T: Copy".                      *)
C4_BareToggleInListAccepted ==
    Done =>
        \A c \in Toggled(level) :
            /\ attrs = BareToggleInList(level, c, <<>>) =>
                    result.tag = "Ok" /\ ToggleValue(level, c, result.val)
            /\ attrs = BareToggleInList(level, c, <<BoundTCopy>>) =>
                    /\ result.tag = "Ok"
                    /\ ToggleValue(level, c, result.val)
                    /\ BoundOf(level, c, result.val) = SomeBounds(<<"T: Copy">>)

(* C4, amended: a bare toggle name is accepted, and sets the toggle to     *)
(* true, in the name = "string" shorthand only (Debug = "transparent");    *)
(* written bare inside the nested list of a capability it is rejected with *)
(* "Expected named value", also after name = "string" options. In the list *)
(* the toggle is written with its payload: Debug(bound = "T: Copy",        *)
(* transparent = "true") gives the bound list [T: Copy] and the toggle.    *)
C4_BareToggleShorthandOnly ==
    Done =>
        \A c \in Toggled(level) :
            /\ attrs = BareToggleInList(level, c, <<>>) =>
                    IsErr(result, "Expected named value")
            /\ attrs = BareToggleInList(level, c, <<BoundTCopy>>) =>
                    IsErr(result, "Expected named value")
            /\ attrs = <<Derivative(<<NameValue(c, StrLit(ToggleOf(level, c)))>>)>> =>
                    result.tag = "Ok" /\ ToggleValue(level, c, result.val)
            /\ attrs = <<Derivative(<<List(c,
                            <<BoundTCopy,
                              NameValue(ToggleOf(level, c), StrLit("true"))>>)>>)>> =>
                    /\ result.tag = "Ok"
                    /\ ToggleValue(level, c, result.val)
                    /\ BoundOf(level, c, result.val) = SomeBounds(<<"T: Copy">>)

(* Debug(bound = "T: Copy", transparent) on a type.                        *)
C4_Witness ==
    /\ Done
    /\ level = "type"
    /\ attrs = BareToggleInList("type", "Debug", <<BoundTCopy>>)
    /\ result.tag = "Err"

----------------------------------------------------------------------------
(* The option names a capability of a type recognizes.                     *)
InputOptions(c) ==
    {"bound"} \cup (IF c \in Toggled("type") THEN {ToggleOf("type", c)} ELSE {})

IsOptionList(es, names) ==
    /\ \A i \in DOMAIN es :
        es[i].kind = "NameValue" /\ es[i].lit.str /\ es[i].ident \in names
    /\ \A i, j \in DOMAIN es : i # j => es[i].ident # es[j].ident

(* The declaration carries exactly two blocks of the capability `c`, with  *)
(* the option lists A and B of recognized options, no option in both.      *)
TwoBlocks(as, c) ==
    LET ms == Written(as)
    IN  /\ \A i \in DOMAIN as : as[i].kind = "List" /\ as[i].ident = "derivative"
        /\ Len(ms) = 2
        /\ \A i \in 1..2 : ms[i].kind \in {"Word", "List"} /\ ms[i].ident = c
        /\ IsOptionList(ms[1].nested \o ms[2].nested, InputOptions(c))

OneBlock(c, es) == <<Derivative(<<List(c, es)>>)>>

(* C1: a type with two blocks of a capability, A in one and B in the       *)
(* other, in either order, gets the configuration of the single block with *)
(* the options of both, whenever that block parses.                        *)
C1_TypeLevelMerging ==
    (Done /\ level = "type") =>
        \A c \in Capabilities :
            TwoBlocks(attrs, c) =>
                LET A == Written(attrs)[1].nested
                    B == Written(attrs)[2].nested
                    ab == Input_from_ast(OneBlock(c, A \o B))
                    ba == Input_from_ast(OneBlock(c, B \o A))
                IN  ab.tag = "Ok" =>
                        /\ result.tag = "Ok"
                        /\ result.val = ab.val
                        /\ ba.tag = "Ok"
                        /\ result.val = ba.val

(* The toggle in the first attribute, the bound in the second.             *)
C1_Witness ==
    /\ Succeeded
    /\ level = "type"
    /\ Len(attrs) = 2
    /\ \E c \in Toggled("type") :
        /\ TwoBlocks(attrs, c)
        /\ attrs[1].nested[1].nested = <<NameValue(ToggleOf("type", c), StrLit("true"))>>
        /\ attrs[2].nested[1].nested = <<NameValue("bound", StrLit("T: Clone, U: Eq"))>>
        /\ ToggleValue("type", c, result.val)
        /\ BoundOf("type", c, result.val).preds = <<"T: Clone", "U: Eq">>

----------------------------------------------------------------------------
(* C8: from_ast ends by returning a configuration or an error message,     *)
(* whatever the annotations, the strings of the name = "string" shorthand  *)
(* included.                                                               *)
C8_ReturnsConfigOrError == Done => result.tag \in {"Ok", "Err"}

----------------------------------------------------------------------------
(* The offending constructs, read off the attributes as written.           *)

Clean == [tag |-> "Clean", val |-> <<>>, err |-> ""]

(* The capability names the dispatcher of a level has an arm for: the      *)
(* field level has none for Copy (C6).                                     *)
DispatchedTraits(lv) ==
    IF lv = "type" THEN Capabilities ELSE Capabilities \ {"Copy"}

(* What an option name is for a capability at a level.                     *)
OptionKind(lv, c, name) ==
    CASE name = "bound" -> "bound"
      [] name # "bound" /\ lv = "type" ->
            IF c \in Toggled("type") /\ name = ToggleOf("type", c)
            THEN "toggle" ELSE "unknown"
      [] name # "bound" /\ lv = "field" ->
            IF c \in Toggled("field") /\ name = "ignore" THEN "toggle"
            ELSE IF c \in {"Clone", "Debug", "Hash", "PartialEq"}
                    /\ name = WithOf("field", c) THEN "path"
            ELSE IF c = "Default" /\ name = "value" THEN "expr"
            ELSE "unknown"

(* The error of one option (name, value) of a block of `c`, if it has one. *)
OptionOffence(lv, c, name, value) ==
    LET kind == OptionKind(lv, c, name)
        needs == Err("'" \o name \o "' needs a value")
        sub == CASE kind = "bound" -> parse_where(value.s)
                 [] kind = "path" -> parse_path(value.s)
                 [] OTHER -> parse_expr(value.s)
    IN  CASE kind = "unknown" -> Err("unknown attribute '" \o name \o "'")
          [] kind = "toggle" ->
                IF value.some /\ value.s \notin {"true", "false"}
                THEN Err("Invalid value for '" \o name \o "'") ELSE Clean
          [] kind = "bound" ->
                IF ~value.some THEN needs
                ELSE IF value.s = "" \/ sub.tag = "Ok" THEN Clean ELSE Err(sub.err)
          [] OTHER ->
                IF ~value.some THEN needs
                ELSE IF sub.tag = "Ok" THEN Clean ELSE Err(sub.err)

(* The error of the shape of one entry of a nested list.                   *)
EntryShapeOffence(e) ==
    IF e.kind # "NameValue" THEN Err("Expected named value")
    ELSE IF ~e.lit.str THEN Err("Expected string")
    ELSE Clean

(* The first element of a sequence of outcomes that is not Clean.          *)
RECURSIVE FirstOffence(_)
FirstOffence(os) ==
    IF os = <<>> THEN Clean
    ELSE IF Head(os).tag # "Clean" THEN Head(os)
    ELSE FirstOffence(Tail(os))

(* The error of the shape of a top-level node: the first entry of its list *)
(* with a shape error; the name = "string" shorthand with a string that is *)
(* no identifier aborts (C8).                                              *)
ShapeOffence(n) ==
    CASE n.kind = "Literal" -> Err("Expected meta but found literal")
      [] n.kind = "Word" -> Clean
      [] n.kind = "List" ->
            FirstOffence([i \in 1..Len(n.nested) |-> EntryShapeOffence(n.nested[i])])
      [] n.kind = "NameValue" ->
            IF ~n.lit.str THEN Err("Expected string")
            ELSE IF ~ValidIdent(n.lit.value) THEN Panic("not a valid ident")
            ELSE Clean

(* The error of the name of a top-level node.                              *)
NameOffence(lv, n) ==
    IF n.kind # "Literal" /\ n.ident \notin DispatchedTraits(lv)
    THEN Err("unknown trait '" \o n.ident \o "'") ELSE Clean

(* The errors of the options of a well-shaped node, in the order written.  *)
OptionOffences(lv, n) ==
    CASE n.kind = "List" ->
            [i \in 1..Len(n.nested) |->
                OptionOffence(lv, n.ident, n.nested[i].ident,
                              Some(n.nested[i].lit.value))]
      [] n.kind = "NameValue" ->
            <<OptionOffence(lv, n.ident, n.lit.value, None)>>
      [] OTHER -> <<>>

(* The outcome of a node when its constructs are taken one by one in       *)
(* source order: the name, then each entry with its shape and its meaning. *)
SourceOrderOutcome(lv, n) ==
    CASE n.kind = "Literal" -> ShapeOffence(n)
      [] n.kind # "Literal" /\ NameOffence(lv, n).tag # "Clean" -> NameOffence(lv, n)
      [] n.kind = "List" /\ NameOffence(lv, n).tag = "Clean" ->
            FirstOffence([i \in 1..Len(n.nested) |->
                IF EntryShapeOffence(n.nested[i]).tag # "Clean"
                THEN EntryShapeOffence(n.nested[i])
                ELSE OptionOffence(lv, n.ident, n.nested[i].ident,
                                   Some(n.nested[i].lit.value))])
      [] OTHER ->
            IF ShapeOffence(n).tag # "Clean" THEN ShapeOffence(n)
            ELSE FirstOffence(OptionOffences(lv, n))

(* The outcome of a node when its shape is checked first, over all its     *)
(* entries, then its name, then its options in order.                      *)
NodeOutcome(lv, n) ==
    IF ShapeOffence(n).tag # "Clean" THEN ShapeOffence(n)
    ELSE IF NameOffence(lv, n).tag # "Clean" THEN NameOffence(lv, n)
    ELSE FirstOffence(OptionOffences(lv, n))

(* The place of the first offending top-level node among the written ones, *)
(* 0 when there is none.                                                   *)
FirstOffending(lv, as) ==
    LET ws == Written(as)
        bad == {k \in DOMAIN ws : NodeOutcome(lv, ws[k]).tag # "Clean"}
    IN  IF bad = {} THEN 0 ELSE CHOOSE k \in bad : \A j \in bad : k <= j

(* How many written nodes stand before the place the loops are at.         *)
NodesBefore(as, a, n) ==
    Len(Written(SubSeq(as, 1, a - 1))) + (n - 1)

SameOutcome(r, o) == r.tag = o.tag /\ r.err = o.err

(* C10 as stated, on the runs that do not abort: the error is the one of   *)
(* the construct that comes first in source order, the options inside one  *)
(* node included.                                                          *)
C10_FirstInSourceOrder ==
    (Done /\ result.tag # "Panic") =>
        LET k == FirstOffending(level, attrs)
        IN  k # 0 => SameOutcome(result, SourceOrderOutcome(level, Written(attrs)[k]))

(* C10, amended: from_ast stops at the first offending top-level node in   *)
(* source order, across attributes and across the nodes of one attribute,  *)
(* and nothing written after that node is looked at. Inside the node the   *)
(* shape of all its entries is checked first, in order, then its name,     *)
(* then its options in order: the outcome is the first of these (an abort  *)
(* for the name = "string" shorthand with a string that is no identifier). *)
C10_FirstOffendingNode ==
    Done =>
        LET k == FirstOffending(level, attrs)
        IN  IF k = 0 THEN result.tag = "Ok"
            ELSE /\ SameOutcome(result, NodeOutcome(level, Written(attrs)[k]))
                 /\ NodesBefore(attrs, ai, ni) = k - 1

(* One node with two offending options that have different errors.        *)
C10_Witness ==
    /\ Done
    /\ Len(Written(attrs)) = 1
    /\ FirstOffending(level, attrs) = 1
    /\ ShapeOffence(Written(attrs)[1]).tag = "Clean"
    /\ Len(Written(attrs)[1].nested) = 2
    /\ \A i \in 1..2 : OptionOffences(level, Written(attrs)[1])[i].tag = "Err"
    /\ OptionOffences(level, Written(attrs)[1])[1].err
            # OptionOffences(level, Written(attrs)[1])[2].err
    /\ result.err = OptionOffences(level, Written(attrs)[1])[1].err

----------------------------------------------------------------------------
(* The names of the written blocks that are none of the seven capabilities *)
UnknownTraitsWritten(as) ==
    {Written(as)[i].ident :
        i \in {j \in DOMAIN Written(as) : Written(as)[j].kind # "Literal"}}
    \ Capabilities

(* The option names written in one node: those of the name = "string"      *)
(* entries of its list, or the string of the shorthand.                    *)
OptionNamesOf(n) ==
    CASE n.kind = "List" ->
            {n.nested[i].ident :
                i \in {j \in DOMAIN n.nested : n.nested[j].kind = "NameValue"}}
      [] n.kind = "NameValue" /\ n.lit.str -> {n.lit.value}
      [] OTHER -> {}

(* The option names written in a block of a capability that the capability *)
(* does not have at the level.                                             *)
UnknownOptionsWritten(lv, as) ==
    UNION {{o \in OptionNamesOf(Written(as)[i]) :
                OptionKind(lv, Written(as)[i].ident, o) = "unknown"} :
           i \in {j \in DOMAIN Written(as) :
                    /\ Written(as)[j].kind # "Literal"
                    /\ Written(as)[j].ident \in Capabilities}}

(* C7 as stated, on the runs that do not abort and the fields without a    *)
(* Copy block: an unknown block name anywhere gives an "unknown trait"     *)
(* error, an unknown option anywhere an "unknown attribute" error.         *)
C7_UnknownNameError ==
    (Done /\ result.tag # "Panic" /\ (level = "field" => ~HasBlock(attrs, "Copy"))) =>
        /\ UnknownTraitsWritten(attrs) # {} =>
                \E x \in UnknownTraitsWritten(attrs) :
                    IsErr(result, "unknown trait '" \o x \o "'")
        /\ UnknownOptionsWritten(level, attrs) # {} =>
                \E o \in UnknownOptionsWritten(level, attrs) :
                    IsErr(result, "unknown attribute '" \o o \o "'")

(* C7, amended: a block name the dispatcher of the level has no arm for    *)
(* (any name but the seven capabilities, and Copy on a field, C6), or an   *)
(* option name the capability does not have at the level, anywhere in the  *)
(* attributes, makes from_ast return no configuration, not even a partial  *)
(* one: it returns an error, or aborts on the shorthand string of C8. The  *)
(* error is "unknown trait" of that name, or "unknown attribute" of that   *)
(* option, when the name or the option is the first offending construct    *)
(* met: in the first offending node, with the shape of the node in order.  *)
C7_UnknownNameFailFast ==
    Done =>
        LET k == FirstOffending(level, attrs)
            n == Written(attrs)[k]
            os == OptionOffences(level, n)
            first == CHOOSE i \in DOMAIN os :
                        /\ os[i].tag # "Clean"
                        /\ \A j \in 1..(i - 1) : os[j].tag = "Clean"
            name == IF n.kind = "List" THEN n.nested[first].ident ELSE n.lit.value
        IN  /\ (\/ UnknownTraitsWritten(attrs) # {}
                \/ UnknownOptionsWritten(level, attrs) # {}
                \/ (level = "field" /\ HasBlock(attrs, "Copy")))
                    => result.tag # "Ok"
            /\ (k # 0 /\ ShapeOffence(n).tag = "Clean") =>
                    IF NameOffence(level, n).tag # "Clean"
                    THEN IsErr(result, "unknown trait '" \o n.ident \o "'")
                    ELSE OptionKind(level, n.ident, name) = "unknown" =>
                            IsErr(result, "unknown attribute '" \o name \o "'")

(* A valid block with a bound, then a block with an unknown option: the    *)
(* configuration built from the first block is not returned.               *)
C7_Witness ==
    /\ Done
    /\ level = "type"
    /\ Len(Written(attrs)) = 2
    /\ FirstOffending(level, attrs) = 2
    /\ UnknownOptionsWritten(level, attrs) = {"bogus"}
    /\ \E c \in Capabilities : BoundOf(level, c, input).present
    /\ IsErr(result, "unknown attribute 'bogus'")

----------------------------------------------------------------------------
(* The single-slot options, read off the attributes as written.            *)

(* The field-level capabilities with a function-reference option or the    *)
(* `value` option, and the accessor of that slot.                          *)
Withed == {"Clone", "Debug", "Default", "Hash", "PartialEq"}

WithValue(c, cfg) ==
    CASE c = "Clone" -> Field_clone_with(cfg)
      [] c = "Debug" -> Field_debug_format_with(cfg)
      [] c = "Default" -> Field_default_value(cfg)
      [] c = "Hash" -> Field_hash_with(cfg)
      [] c = "PartialEq" -> Field_partial_eq_compare_with(cfg)

(* The occurrences of the option `name` in the blocks of `c`, in source    *)
(* order, each with its payload: name = "payload" inside a nested list,    *)
(* or no payload in the shorthand c = "name".                              *)
WritesIn(n, name) ==
    CASE n.kind = "List" ->
            LET sel == SelectSeq(n.nested,
                           LAMBDA e : e.kind = "NameValue" /\ e.ident = name)
            IN  [i \in 1..Len(sel) |-> Some(sel[i].lit.value)]
      [] n.kind = "NameValue" /\ n.lit.value = name -> <<None>>
      [] OTHER -> <<>>

SlotWrites(as, c, name) ==
    LET bs == BlocksOf(as, c)
    IN  Flatten([i \in 1..Len(bs) |-> WritesIn(bs[i], name)])

(* What the last occurrence of a toggle says; false with no occurrence.    *)
LastToggle(ws) ==
    IF ws = <<>> THEN FALSE
    ELSE IF ws[Len(ws)].some THEN ws[Len(ws)].s = "true" ELSE TRUE

(* The reference the last occurrence names; none with no occurrence.       *)
LastWith(ws) == IF ws = <<>> THEN None ELSE ws[Len(ws)]

(* C11: on success every boolean toggle holds what its last occurrence     *)
(* over all the blocks of its capability says, and every function          *)
(* reference and the field-level Default `value` hold the payload of their *)
(* last occurrence; blocks after it that do not mention the option leave   *)
(* it as it is, and with no occurrence it has its default.                 *)
C11_LastWriteWins ==
    Succeeded =>
        \A c \in Capabilities :
            /\ c \in Toggled(level) =>
                    ToggleValue(level, c, result.val) =
                        LastToggle(SlotWrites(attrs, c, ToggleOf(level, c)))
            /\ (level = "field" /\ c \in Withed) =>
                    WithValue(c, result.val) =
                        LastWith(SlotWrites(attrs, c, WithOf("field", c)))

(* A toggle written false, then true in a second block, then a block of    *)
(* the capability that does not mention it: it stays true.                 *)
C11_Witness ==
    /\ Succeeded
    /\ level = "type"
    /\ \E c \in Toggled("type") :
        /\ Len(BlocksOf(attrs, c)) = 3
        /\ WritesIn(BlocksOf(attrs, c)[1], ToggleOf("type", c)) = <<Some("false")>>
        /\ WritesIn(BlocksOf(attrs, c)[2], ToggleOf("type", c)) = <<Some("true")>>
        /\ BlocksOf(attrs, c)[3] = Word(c)
        /\ ToggleValue("type", c, result.val)

(* The field-level Default `value` written twice in one block, then a      *)
(* block of Default without it: the second expression stays.               *)
C11_ValueWitness ==
    /\ Succeeded
    /\ level = "field"
    /\ Len(BlocksOf(attrs, "Default")) = 2
    /\ WritesIn(BlocksOf(attrs, "Default")[1], "value") =
            <<Some("my_fn"), Some("other::my_fn")>>
    /\ BlocksOf(attrs, "Default")[2] = Word("Default")
    /\ Field_default_value(result.val) = Some("other::my_fn")

----------------------------------------------------------------------------
(* The sub-configuration a capability has in the record of a level.        *)
SubConfig(lv, c, cfg) ==
    IF lv = "type"
    THEN CASE c = "Clone" -> cfg.clone
           [] c = "Copy" -> cfg.copy
           [] c = "Debug" -> cfg.debug
           [] c = "Default" -> cfg.default
           [] c = "Eq" -> cfg.eq
           [] c = "Hash" -> cfg.hash
           [] c = "PartialEq" -> cfg.partial_eq
    ELSE CASE c = "Clone" -> cfg.clone
           [] c = "Copy" -> cfg.copy_bound
           [] c = "Debug" -> cfg.debug
           [] c = "Default" -> cfg.default
           [] c = "Eq" -> cfg.eq_bound
           [] c = "Hash" -> cfg.hash
           [] c = "PartialEq" -> cfg.partial_eq

(* The capabilities present in the record of a type.                       *)
PresentIn(cfg) == {c \in Capabilities : SubConfig("type", c, cfg).some}

(* from_ast is at a top-level node of a derivative(...) attribute.         *)
AtNode ==
    /\ pc = "loop"
    /\ ai <= Len(attrs)
    /\ attrs[ai].kind = "List"
    /\ attrs[ai].ident = "derivative"
    /\ ni <= Len(attrs[ai].nested)

(* The step over the node from_ast is at changes the sub-configuration of  *)
(* no capability but the one the node names.                               *)
FrameStep ==
    AtNode =>
        LET n == attrs[ai].nested[ni]
        IN  \A c \in Capabilities :
                (n.kind = "Literal" \/ n.ident # c) =>
                    /\ SubConfig("type", c, input') = SubConfig("type", c, input)
                    /\ SubConfig("field", c, out') = SubConfig("field", c, out)

(* In a successful result for a type, the capabilities present are those   *)
(* a namespaced top-level block names.                                     *)
PresenceExact ==
    (Succeeded /\ level = "type") =>
        PresentIn(result.val) = {c \in Capabilities : HasBlock(attrs, c)}

(* C12: every step of Input::from_ast and Field::from_ast over a block of  *)
(* a capability leaves the sub-configurations of all other capabilities as *)
(* they were, and in a successful result a type-level capability is        *)
(* present exactly when a namespaced top-level block names it.             *)
C12_CapabilityFrame == [][FrameStep]_vars /\ []PresenceExact

(* A block of one capability with a bound, then a block of another: the    *)
(* bound of the first is still there and just these two are present.       *)
C12_Witness ==
    /\ Succeeded
    /\ level = "type"
    /\ Len(Written(attrs)) = 2
    /\ \E x, y \in Capabilities :
        /\ x # y
        /\ Written(attrs)[1] = List(y, <<BoundTCopy>>)
        /\ Written(attrs)[2].ident = x
        /\ Written(attrs)[2].kind = "List"
        /\ BoundOf("type", y, result.val) = SomeBounds(<<"T: Copy">>)
        /\ PresentIn(result.val) = {x, y}

====
